---------------------------- MODULE Spec2Model ----------------------------
(***************************************************************************)
(* A model of ObsidianMOCExporter (src/src/moc_exporter/exporter.py).      *)
(*                                                                         *)
(* Two specifications share this module.                                   *)
(*                                                                         *)
(*   Spec         one run of export(moc_path) over a vault: root           *)
(*                resolution, the depth-bounded recursive traversal        *)
(*                (collect_notes_recursive, with its call stack made       *)
(*                explicit), the note export pass and the attachment copy  *)
(*                pass.  File names are records (directory, stem,          *)
(*                extension); a document's text is the sequence of the     *)
(*                reference occurrences the two patterns find in it.       *)
(*                                                                         *)
(*   SpecConvert  convert_to_standard_markdown on texts that are           *)
(*                sequences of characters, with the three regular          *)
(*                expressions interpreted character by character.          *)
(***************************************************************************)
EXTENDS Integers, Sequences, FiniteSets, TLC

---------------------------------------------------------------------------
(* Bounds of the model.                                                    *)

\* max_depth ranges over 0 .. MaxDepthBound
MaxDepthBound == 3
\* the notes of a vault of the graph family hold at most MaxRefs reference
\* occurrences in all
MaxRefs == 4

---------------------------------------------------------------------------
(* Paths.  A path below the vault is a record: the directory part, the    *)
(* stem of the last component as a sequence of tokens (so that "_1" can   *)
(* be appended to it) and the suffix of the last component.               *)

PathOf(dir, stem, ext) == [dir |-> dir, stem |-> stem, ext |-> ext]

\* "no path": find_note_file / find_attachment_file returning None
NoPath == PathOf("<none>", <<>>, "")

\* Path(p).name: the directory-stripped file name
NameOf(p) == [stem |-> p.stem, ext |-> p.ext]

\* The files of the vault.
FileR   == PathOf("", <<"R">>, ".md")
FileA   == PathOf("", <<"A">>, ".md")
FileS   == PathOf("sub", <<"A">>, ".md")
FileN   == PathOf("", <<"notes">>, "")
FileI1  == PathOf("", <<"img">>, ".png")
FileI2  == PathOf("sub", <<"img">>, ".png")
FilePic == PathOf("attachments", <<"pic">>, ".pdf")

VaultFiles == {FileR, FileA, FileS, FileN, FileI1, FileI2, FilePic}

\* The directories of the vault: the vault itself, sub/ and attachments/.
VaultDir == PathOf("", <<>>, "")
VaultDirs == {VaultDir, PathOf("", <<"sub">>, ""), PathOf("", <<"attachments">>, "")}

\* Path.exists()
Exists(p) == p \in VaultFiles \cup VaultDirs

\* The text files of the vault: the files read_text can decode.
TextFiles == {FileR, FileA, FileS, FileN}


---------------------------------------------------------------------------
(* Link targets.  The target string of a reference is a record: the path  *)
(* it spells and whether a "#heading" fragment follows it.  The empty     *)
(* path with a fragment is a pure same-document heading link, "#h".       *)

Target(dir, stem, ext, frag) == [dir |-> dir, stem |-> stem, ext |-> ext, frag |-> frag]

\* target.split('#')[0] (the targets of the model carry no surrounding blanks)
StripFragment(t) == PathOf(t.dir, t.stem, t.ext)

\* `not filename`: the empty string
IsEmpty(f) == f.dir = "" /\ f.stem = <<>> /\ f.ext = ""

\* A reference occurrence in a document's text: its target, whether it is
\* an embed (![[...]]) and whether it lies inside a %%...%% comment span.
Ref(t, embed, comment) == [target |-> t, embed |-> embed, comment |-> comment]

IMAGE_EXTENSIONS == {".png", ".jpg", ".jpeg", ".gif", ".svg", ".webp", ".bmp"}
DOCUMENT_EXTENSIONS == {".pdf", ".doc", ".docx", ".xls", ".xlsx", ".ppt", ".pptx"}
MEDIA_EXTENSIONS == {".mp3", ".wav", ".mp4", ".webm", ".ogg"}
ATTACHMENT_EXTENSIONS == IMAGE_EXTENSIONS \cup DOCUMENT_EXTENSIONS \cup MEDIA_EXTENSIONS

\* str.lower() on the suffixes of the model
LowerExt(e) == CASE e = ".PNG" -> ".png" [] e = ".MD" -> ".md" [] OTHER -> e

is_attachment(filename) == LowerExt(filename.ext) \in ATTACHMENT_EXTENSIONS

is_image(filename) == LowerExt(filename.ext) \in IMAGE_EXTENSIONS

---------------------------------------------------------------------------
(* Directory enumeration.  rglob visits the vault in an order the file     *)
(* system fixes; the two orders of the model list the top directory first  *)
(* or last.                                                                *)

ScanTopFirst == <<FileR, FileA, FileN, FileI1, FilePic, FileS, FileI2>>
ScanSubFirst == <<FileS, FileI2, FilePic, FileR, FileA, FileN, FileI1>>
ScanOrders == {ScanTopFirst, ScanSubFirst}

\* the first element of sequence sc that satisfies the set membership, or NoPath
RECURSIVE FirstIn(_, _)
FirstIn(sc, set) ==
    IF sc = <<>> THEN NoPath
    ELSE IF Head(sc) \in set THEN Head(sc) ELSE FirstIn(Tail(sc), set)

\* _build_note_cache: stem -> first *.md file rglob yields with that stem
BuildNoteCache(sc) ==
    LET md == {f \in VaultFiles : f.ext = ".md"}
        stems == {f.stem : f \in md}
    IN [s \in stems |-> FirstIn(sc, {f \in md : f.stem = s})]

\* find_note_file without the cache lookup (a faulty variant: the index is ignored)
find_note_file_no_index(link_target, cache) ==
    LET lt == StripFragment(link_target)
        direct == IF lt.ext = "" THEN PathOf(lt.dir, lt.stem, ".md") ELSE lt
    IN IF IsEmpty(lt) THEN NoPath
       ELSE IF Exists(direct) THEN direct
       ELSE NoPath

\* find_note_file, with the cache it has built
find_note_file(link_target, cache) ==
    LET lt == StripFragment(link_target)
        direct == IF lt.ext = "" THEN PathOf(lt.dir, lt.stem, ".md") ELSE lt
    IN IF IsEmpty(lt) THEN NoPath
       ELSE IF Exists(direct) THEN direct
       ELSE IF lt.stem \in DOMAIN cache THEN cache[lt.stem]
       ELSE NoPath

\* the search directories of find_attachment_file, in order ('' is the vault)
SearchDirs == <<"attachments", "assets", "images", "files", "">>

\* search_path.rglob(name): the files below directory d with that name
RGlob(d, name) ==
    {f \in VaultFiles : (d = "" \/ f.dir = d) /\ NameOf(f) = name}

DirExists(d) == d = "" \/ PathOf("", <<d>>, "") \in VaultDirs

RECURSIVE SearchAttachment(_, _, _)
SearchAttachment(dirs, name, sc) ==
    IF dirs = <<>> THEN NoPath
    ELSE IF DirExists(Head(dirs)) /\ RGlob(Head(dirs), name) # {}
         THEN FirstIn(sc, RGlob(Head(dirs), name))
         ELSE SearchAttachment(Tail(dirs), name, sc)

\* find_attachment_file without the existence test (a faulty variant)
find_attachment_file_unchecked(filename, sc) == filename

find_attachment_file(filename, sc) ==
    IF Exists(filename) THEN filename
    ELSE SearchAttachment(SearchDirs, NameOf(filename), sc)

\* extract_links: every embed, then every [[...]] occurrence; the link
\* pattern also matches the bracket part of an embed, so an embed is
\* listed twice.  Comment spans are not removed before matching.
extract_links(content) ==
    SelectSeq(content, LAMBDA r : r.embed) \o content

---------------------------------------------------------------------------
(* The state of one run.                                                   *)

VARIABLES
    \* inputs and environment
    max_depth,              \* self.max_depth
    moc_path,               \* the argument of export
    content,                \* the text of each text file: its reference occurrences
    unreadable,             \* the files whose read_text raises
    broken,                 \* the sources whose write_text / copy2 to the output raises
    scan,                   \* the enumeration order of rglob
    \* convert_to_standard_markdown on a text of characters (SpecConvert)
    conv_pieces,            \* the pieces the input text is made of
    conv_vault,             \* the attachment files of the vault
    conv_hist,              \* the input, then the result of each run of convert:
                            \* the text and collected_attachments after it
    \* the exporter object
    note_cache,             \* self._note_cache
    collected_notes,        \* self.collected_notes: note path -> depth
    collected_order,        \* the insertion order of the keys of collected_notes
    collected_attachments,  \* self.collected_attachments
    \* control
    pc,                     \* where export is
    stack,                  \* the active calls of collect_notes_recursive, innermost first
    note_idx,               \* position of the note loop of export in collected_order
    copied,                 \* the attachments the copy loop of export has handled
    exported_notes,
    exported_attachments,
    stats,                  \* the dictionary export returns
    \* the output directory
    out_dir,                \* whether self.output_path exists
    out_files,              \* output file name -> what was written to it
    \* history
    expansions,             \* the calls that went on to read their note: the note, the call's
                            \* depth and the depth recorded for the note before (-1: none)
    writes                  \* the files export wrote, in order

vars == <<max_depth, moc_path, content, unreadable, broken, scan,
          conv_pieces, conv_vault, conv_hist, note_cache,
          collected_notes, collected_order, collected_attachments, pc, stack,
          note_idx, copied, exported_notes, exported_attachments, stats,
          out_dir, out_files, expansions, writes>>

env == <<max_depth, moc_path, content, unreadable, broken, scan,
         conv_pieces, conv_vault, conv_hist>>
outputs == <<out_dir, out_files, writes>>
counters == <<note_idx, copied, exported_notes, exported_attachments, stats>>

\* read_text that never raises on a file (a faulty variant:
\* errors='ignore', no permission check)
ReadableIgnoringErrors(p) == p \in TextFiles

\* note_path.read_text succeeds
Readable(p) == p \in TextFiles /\ p \notin unreadable

\* an activation of collect_notes_recursive: at its entry ("enter") or in
\* its loop over links, about to handle links[i]
Frame(note, depth) ==
    [note |-> note, depth |-> depth, at |-> "enter", links |-> <<>>, i |-> 1]

Keys == DOMAIN collected_notes

Record(notes, note, depth) ==
    [p \in DOMAIN notes \cup {note} |-> IF p = note THEN depth ELSE notes[p]]

\* lines 236-238 as a plain visited set (a faulty variant)
AlreadyCollectedAtAll(notes, note_path, current_depth) ==
    note_path \in DOMAIN notes

\* lines 236-238 with < for <= (a faulty variant)
AlreadyCollectedStrict(notes, note_path, current_depth) ==
    note_path \in DOMAIN notes /\ notes[note_path] < current_depth

\* lines 236-238 left out (a faulty variant: every visit records its depth)
AlreadyCollectedNever(notes, note_path, current_depth) == FALSE

\* lines 236-238: already collected at the same or a lower depth
AlreadyCollected(notes, note_path, current_depth) ==
    note_path \in DOMAIN notes /\ notes[note_path] <= current_depth

\* line 243 with > for >= (a faulty variant)
DepthReachedLate(current_depth, md) == current_depth > md

\* line 243 left out (a faulty variant: the depth never stops a call)
DepthReachedNever(current_depth, md) == FALSE

\* line 243: stop recursion if max depth reached
DepthReached(current_depth, md) == current_depth >= md

---------------------------------------------------------------------------
(* export, lines 282-294: resolve the MOC file and start the traversal.    *)

\* vault_path / moc_path exists (no vault file has a '#' in its name)
RawExists(t) == ~t.frag /\ Exists(StripFragment(t))

\* `if not self._note_cache: self._build_note_cache()`
CacheAfterLookup(cache, sc) == IF DOMAIN cache = {} THEN BuildNoteCache(sc) ELSE cache

\* lines 283-288: the MOC file, or NoPath when FileNotFoundError is raised
MocFile(moc, cache) ==
    LET found == find_note_file(moc, cache)
    IN IF found # NoPath THEN found
       ELSE IF RawExists(moc) THEN StripFragment(moc)
       ELSE NoPath

Start ==
    /\ pc = "init"
    /\ LET cache == CacheAfterLookup(note_cache, scan)
           moc_file == MocFile(moc_path, cache)
       IN /\ note_cache' = cache
          /\ IF moc_file # NoPath
             THEN /\ stack' = <<Frame(moc_file, 0)>>
                  /\ pc' = "collect"
             ELSE /\ stack' = stack
                  /\ pc' = "error"      \* raise FileNotFoundError
    /\ UNCHANGED <<env, collected_notes, collected_order, collected_attachments,
                   counters, outputs, expansions>>

---------------------------------------------------------------------------
(* collect_notes_recursive, lines 235-254: the entry of a call.            *)

Enter ==
    /\ pc = "collect"
    /\ stack # <<>>
    /\ Head(stack).at = "enter"
    /\ LET f == Head(stack)
       IN IF AlreadyCollected(collected_notes, f.note, f.depth)
          THEN /\ stack' = Tail(stack)
               /\ UNCHANGED <<collected_notes, collected_order, expansions>>
          ELSE /\ collected_notes' = Record(collected_notes, f.note, f.depth)
               /\ collected_order' = IF f.note \in Keys THEN collected_order
                                     ELSE Append(collected_order, f.note)
               /\ IF DepthReached(f.depth, max_depth)
                  THEN /\ stack' = Tail(stack)
                       /\ UNCHANGED expansions
                  ELSE /\ expansions' = Append(expansions,
                              [note |-> f.note, depth |-> f.depth,
                               prev |-> IF f.note \in Keys THEN collected_notes[f.note] ELSE -1])
                       /\ IF Readable(f.note)
                          THEN stack' = <<[f EXCEPT !.at = "loop",
                                             !.links = extract_links(content[f.note])]>>
                                        \o Tail(stack)
                          ELSE stack' = Tail(stack)   \* warning, return
    /\ UNCHANGED <<env, note_cache, collected_attachments, pc, counters, outputs>>

(* collect_notes_recursive, lines 255-270: one iteration of the loop.      *)
Visit ==
    /\ pc = "collect"
    /\ stack # <<>>
    /\ Head(stack).at = "loop"
    /\ Head(stack).i <= Len(Head(stack).links)
    /\ LET f == Head(stack)
           r == f.links[f.i]
           filename == StripFragment(r.target)
           next == [f EXCEPT !.i = f.i + 1]
       IN IF IsEmpty(filename)
          THEN /\ stack' = <<next>> \o Tail(stack)
               /\ UNCHANGED collected_attachments
          ELSE IF is_attachment(filename)
          THEN LET attachment_path == find_attachment_file(filename, scan)
               IN /\ collected_attachments' =
                        IF attachment_path # NoPath
                        THEN collected_attachments \cup {attachment_path}
                        ELSE collected_attachments
                  /\ stack' = <<next>> \o Tail(stack)
          ELSE LET linked_note == find_note_file(filename, note_cache)
               IN /\ stack' = IF linked_note # NoPath
                              THEN <<Frame(linked_note, f.depth + 1), next>> \o Tail(stack)
                              ELSE <<next>> \o Tail(stack)
                  /\ UNCHANGED collected_attachments
    /\ UNCHANGED <<env, note_cache, collected_notes, collected_order, pc,
                   counters, outputs, expansions>>

(* collect_notes_recursive: the loop is over, the call returns.            *)
Return ==
    /\ pc = "collect"
    /\ stack # <<>>
    /\ Head(stack).at = "loop"
    /\ Head(stack).i > Len(Head(stack).links)
    /\ stack' = Tail(stack)
    /\ UNCHANGED <<env, note_cache, collected_notes, collected_order,
                   collected_attachments, pc, counters, outputs, expansions>>

---------------------------------------------------------------------------
(* convert_to_standard_markdown on a document's reference occurrences:     *)
(* the rewritten occurrences, in order, and the attachments it records.    *)
(* Comment spans are removed first, so the occurrences inside them are     *)
(* neither rewritten nor resolved.                                         *)

\* what an occurrence is rewritten to: ![..](dest) when image, [..](dest) otherwise
Rewritten(image, dest) == [image |-> image, dest |-> dest]

\* replace_embed, lines 170-198
replace_embed(r) ==
    LET filename == StripFragment(r.target)
    IN IF is_attachment(filename)
       THEN Rewritten(is_image(filename), NameOf(filename))
       ELSE Rewritten(FALSE, [stem |-> filename.stem, ext |-> ".md"])

\* replace_wikilink, lines 203-221; a target with an empty file name (a
\* heading link "#h") keeps the whole target as destination
replace_wikilink(r) ==
    LET filename == StripFragment(r.target)
    IN IF is_attachment(filename)
       THEN Rewritten(FALSE, NameOf(filename))
       ELSE IF IsEmpty(filename)
       THEN Rewritten(FALSE, [stem |-> <<"#">>, ext |-> ""])
       ELSE Rewritten(FALSE, [stem |-> filename.stem, ext |-> ".md"])

Uncommented(text) == SelectSeq(text, LAMBDA r : ~r.comment)

\* the converted text
ConvertText(text) ==
    LET t == Uncommented(text)
    IN [k \in 1 .. Len(t) |-> IF t[k].embed THEN replace_embed(t[k])
                              ELSE replace_wikilink(t[k])]

\* convert that records no attachment (a faulty variant)
ConvertAttachmentsNone(text, sc) == {}

\* the attachments convert adds to collected_attachments (lines 179-181, 213-215)
ConvertAttachments(text, sc) ==
    LET t == Uncommented(text)
    IN {find_attachment_file(StripFragment(t[k].target), sc) :
           k \in {j \in 1 .. Len(t) : is_attachment(StripFragment(t[j].target))}}
       \ {NoPath}

---------------------------------------------------------------------------
(* Collision handling, lines 313-319 and 333-339.                          *)

Suffixed(name, counter) == [stem |-> name.stem \o <<counter>>, ext |-> name.ext]

RECURSIVE NextFree(_, _, _)
NextFree(name, counter, existing) ==
    IF Suffixed(name, counter) \in existing
    THEN NextFree(name, counter + 1, existing)
    ELSE Suffixed(name, counter)

\* the collision handling left out (a faulty variant: the file is overwritten)
OutputFileNoCheck(name, existing) == name

\* output_file after the collision loop
OutputFile(name, existing) ==
    IF name \in existing THEN NextFree(name, 1, existing) ELSE name

WriteEntry(src, name, existing) == [src |-> src, name |-> name, existed |-> existing]

Put(files, name, src) ==
    [n \in DOMAIN files \cup {name} |-> IF n = name THEN src ELSE files[n]]

---------------------------------------------------------------------------
(* export, lines 296-358.                                                  *)

NoStats == [notes_collected |-> -1, notes_exported |-> -1,
            attachments_collected |-> -1, attachments_exported |-> -1]

\* line 300: the traversal has returned; create the output directory
MakeOutputDir ==
    /\ pc = "collect"
    /\ stack = <<>>
    /\ out_dir' = TRUE
    /\ pc' = "notes"
    /\ UNCHANGED <<env, note_cache, collected_notes, collected_order,
                   collected_attachments, stack, counters, out_files, writes,
                   expansions>>

\* lines 304-324: one iteration of the loop over collected_notes.  A read
\* or write that raises leaves no output file (write_text either writes the
\* file or raises without creating it).
ExportNote ==
    /\ pc = "notes"
    /\ note_idx <= Len(collected_order)
    /\ LET note_path == collected_order[note_idx]
           existing == DOMAIN out_files
           output_file == OutputFile(NameOf(note_path), existing)
       IN /\ note_idx' = note_idx + 1
          /\ IF ~Readable(note_path)
             THEN UNCHANGED <<collected_attachments, out_files, writes, exported_notes>>
             ELSE /\ collected_attachments' = collected_attachments
                        \cup ConvertAttachments(content[note_path], scan)
                  /\ IF note_path \in broken
                     THEN UNCHANGED <<out_files, writes, exported_notes>>
                     ELSE /\ out_files' = Put(out_files, output_file,
                                 [src |-> note_path, text |-> ConvertText(content[note_path])])
                          /\ writes' = Append(writes, WriteEntry(note_path, output_file, existing))
                          /\ exported_notes' = exported_notes + 1
    /\ UNCHANGED <<env, note_cache, collected_notes, collected_order, pc, stack,
                   copied, exported_attachments, stats, out_dir, expansions>>

\* the loop over collected_notes is over
NotesDone ==
    /\ pc = "notes"
    /\ note_idx > Len(collected_order)
    /\ pc' = "attachments"
    /\ UNCHANGED <<env, note_cache, collected_notes, collected_order,
                   collected_attachments, stack, counters, outputs, expansions>>

\* lines 328-344: one iteration of the loop over collected_attachments (a
\* set: the order is whatever the set yields)
CopyAttachment ==
    /\ pc = "attachments"
    /\ \E attachment_path \in collected_attachments \ copied :
          LET existing == DOMAIN out_files
              output_file == OutputFile(NameOf(attachment_path), existing)
          IN /\ copied' = copied \cup {attachment_path}
             /\ IF attachment_path \in broken
                THEN UNCHANGED <<out_files, writes, exported_attachments>>
                ELSE /\ out_files' = Put(out_files, output_file,
                            [src |-> attachment_path, text |-> <<>>])
                     /\ writes' = Append(writes, WriteEntry(attachment_path, output_file, existing))
                     /\ exported_attachments' = exported_attachments + 1
    /\ UNCHANGED <<env, note_cache, collected_notes, collected_order,
                   collected_attachments, pc, stack, note_idx, exported_notes,
                   stats, out_dir, expansions>>

\* lines 346-358: the statistics export returns
Finish ==
    /\ pc = "attachments"
    /\ copied = collected_attachments
    /\ stats' = [notes_collected |-> Cardinality(Keys),
                 notes_exported |-> exported_notes,
                 attachments_collected |-> Cardinality(collected_attachments),
                 attachments_exported |-> exported_attachments]
    /\ pc' = "done"
    /\ UNCHANGED <<env, note_cache, collected_notes, collected_order,
                   collected_attachments, stack, note_idx, copied, exported_notes,
                   exported_attachments, outputs, expansions>>

Next ==
    \/ Start
    \/ Enter
    \/ Visit
    \/ Return
    \/ MakeOutputDir
    \/ ExportNote
    \/ NotesDone
    \/ CopyAttachment
    \/ Finish

---------------------------------------------------------------------------
(* The vaults and arguments a run starts from.                             *)

\* link targets, as they are spelled in a document
TgtA       == Target("", <<"A">>, "", FALSE)           \* A            -> A.md
TgtS       == Target("sub", <<"A">>, "", TRUE)         \* sub/A#h      -> sub/A.md
TgtR       == Target("", <<"R">>, ".md", FALSE)        \* R.md         -> R.md
TgtXA      == Target("x", <<"A">>, "", FALSE)          \* x/A          -> the index, by stem
TgtMissing == Target("", <<"Missing">>, "", FALSE)     \* Missing      -> nothing
TgtHeading == Target("", <<>>, "", TRUE)               \* #h           -> empty file name
TgtImg     == Target("", <<"img">>, ".png", FALSE)     \* img.png      -> img.png
TgtSubImg  == Target("sub", <<"img">>, ".png", TRUE)   \* sub/img.png#p -> sub/img.png
TgtPic     == Target("", <<"pic">>, ".pdf", FALSE)     \* pic.pdf      -> attachments/pic.pdf
TgtXImg    == Target("x", <<"img">>, ".png", FALSE)    \* x/img.png    -> first img.png found
TgtNope    == Target("deep", <<"nope">>, ".png", FALSE) \* deep/nope.png -> nothing
TgtUpper   == Target("", <<"img">>, ".PNG", FALSE)     \* img.PNG      -> nothing
TgtNotes   == Target("", <<"notes">>, "", FALSE)       \* notes        -> the raw path only
TgtSubDir  == Target("", <<"sub">>, "", FALSE)         \* sub          -> the directory sub/
TgtVault   == Target("", <<>>, "", FALSE)              \* ''           -> the vault directory

\* sequences over set S of length at most n
RECURSIVE SeqsUpTo(_, _)
SeqsUpTo(S, n) ==
    IF n = 0 THEN {<<>>}
    ELSE LET shorter == SeqsUpTo(S, n - 1)
         IN shorter \cup {Append(q, x) : q \in {t \in shorter : Len(t) = n - 1}, x \in S}

NoFiles == [n \in {} |-> NoPath]
NoNotes == [p \in {} |-> 0]
OldFile == [src |-> NoPath, text |-> <<>>]

TextOf(r, a, s, n) ==
    [p \in TextFiles |-> CASE p = FileR -> r [] p = FileA -> a
                           [] p = FileS -> s [] OTHER -> n]

\* every variable but the inputs, as the constructor leaves them
InitObject ==
    /\ note_cache = <<>>
    /\ collected_notes = NoNotes
    /\ collected_order = <<>>
    /\ collected_attachments = {}
    /\ pc = "init"
    /\ stack = <<>>
    /\ note_idx = 1
    /\ copied = {}
    /\ exported_notes = 0
    /\ exported_attachments = 0
    /\ stats = NoStats
    /\ expansions = <<>>
    /\ writes = <<>>

\* Graphs: every reference graph over R, A and sub/A with at most MaxRefs
\* references in all, with or without A unreadable.
GraphRefs == {Ref(TgtA, FALSE, FALSE), Ref(TgtS, FALSE, FALSE), Ref(TgtR, TRUE, FALSE)}

InitGraph ==
    /\ max_depth \in 0 .. MaxDepthBound
    /\ moc_path = TgtR
    /\ \E r \in SeqsUpTo(GraphRefs, MaxRefs) :
       \E a \in SeqsUpTo(GraphRefs, MaxRefs - Len(r)) :
       \E s \in SeqsUpTo(GraphRefs, MaxRefs - Len(r) - Len(a)) :
          content = TextOf(r, a, s, <<>>)
    /\ unreadable \in {{}, {FileA}}
    /\ broken = {}
    /\ scan = ScanTopFirst
    /\ out_dir = FALSE
    /\ out_files = NoFiles

\* Attachments: the chain R -> A -> sub/A, each note with at most one
\* attachment reference.
AttachRefs ==
    {Ref(TgtImg, TRUE, FALSE), Ref(TgtSubImg, FALSE, FALSE), Ref(TgtPic, TRUE, FALSE),
     Ref(TgtXImg, FALSE, FALSE), Ref(TgtNope, TRUE, FALSE), Ref(TgtNope, FALSE, FALSE),
     Ref(TgtUpper, TRUE, FALSE), Ref(TgtImg, TRUE, TRUE)}

InitAttach ==
    /\ max_depth \in 0 .. MaxDepthBound
    /\ moc_path = TgtR
    /\ \E r, a, s \in SeqsUpTo(AttachRefs, 1) :
          content = TextOf(r \o <<Ref(TgtA, FALSE, FALSE)>>,
                           <<Ref(TgtS, FALSE, FALSE)>> \o a, s, <<>>)
    /\ unreadable \in {{}, {FileS}}
    /\ broken = {}
    /\ scan \in ScanOrders
    /\ out_dir = FALSE
    /\ out_files = NoFiles

\* Root selectors: every way of naming the MOC file.
RootSelectors ==
    {TgtR, TgtA, TgtS, TgtXA, TgtMissing, TgtHeading, TgtImg, TgtNope,
     TgtNotes, TgtSubDir, TgtVault, Target("", <<"R">>, "", TRUE),
     Target("", <<"notes">>, "", TRUE)}

InitRoot ==
    /\ max_depth = 1
    /\ moc_path \in RootSelectors
    /\ content = TextOf(<<Ref(TgtA, FALSE, FALSE), Ref(TgtImg, TRUE, FALSE)>>,
                        <<Ref(TgtXA, FALSE, FALSE)>>,
                        <<Ref(TgtHeading, FALSE, FALSE), Ref(TgtMissing, TRUE, FALSE)>>,
                        <<Ref(TgtR, FALSE, FALSE), Ref(TgtPic, FALSE, FALSE)>>)
    /\ unreadable = {}
    /\ broken = {}
    /\ scan \in ScanOrders
    /\ out_dir = FALSE
    /\ out_files = NoFiles

\* Collisions and failures: two notes named A.md, two attachments named
\* img.png, an output directory that may already hold files, and sources
\* that cannot be read or written.
OldNames ==
    {[stem |-> <<"A">>, ext |-> ".md"], [stem |-> <<"A", 1>>, ext |-> ".md"],
     [stem |-> <<"img">>, ext |-> ".png"]}

InitCollide ==
    /\ max_depth \in 1 .. MaxDepthBound
    /\ moc_path = TgtR
    /\ content = TextOf(<<Ref(TgtA, FALSE, FALSE), Ref(TgtS, FALSE, FALSE),
                          Ref(TgtImg, TRUE, FALSE)>>,
                        <<Ref(TgtSubImg, TRUE, FALSE), Ref(TgtNope, FALSE, FALSE)>>,
                        <<Ref(TgtPic, FALSE, FALSE)>>, <<>>)
    /\ unreadable \in {{}, {FileA}, {FileR}}
    /\ broken \in {{}, {FileA}, {FileS, FileI1}, {FilePic}}
    /\ scan = ScanTopFirst
    /\ \E old \in SUBSET OldNames :
          /\ out_files = [n \in old |-> OldFile]
          /\ out_dir \in {TRUE} \cup {b \in {FALSE} : old = {}}

\* Spec converts no text of characters
InitNoText ==
    /\ conv_pieces = <<>>
    /\ conv_vault = {}
    /\ conv_hist = <<>>

Init ==
    /\ InitObject
    /\ InitNoText
    /\ \/ InitGraph
       \/ InitAttach
       \/ InitRoot
       \/ InitCollide

Spec == Init /\ [][Next]_vars

---------------------------------------------------------------------------
(* The reference graph of the vault, for the statements about depths.      *)

\* the MOC file the run starts from
Root == MocFile(moc_path, BuildNoteCache(scan))

\* collect_notes_recursive(root, 0) has returned
TraversalDone ==
    \/ pc = "collect" /\ stack = <<>>
    \/ pc \in {"notes", "attachments", "done"}

\* the notes the references of d resolve to; with through_unreadable the
\* text of a file whose read raises counts as well
LinkedNotes(d, through_unreadable) ==
    IF d \in TextFiles /\ (through_unreadable \/ d \notin unreadable)
    THEN {find_note_file(content[d][k].target, BuildNoteCache(scan)) :
             k \in {j \in 1 .. Len(content[d]) :
                      /\ ~IsEmpty(StripFragment(content[d][j].target))
                      /\ ~is_attachment(StripFragment(content[d][j].target))}}
         \ {NoPath}
    ELSE {}

\* the documents within k reference hops of the root
RECURSIVE Within(_, _)
Within(k, through_unreadable) ==
    IF k = 0 THEN {Root}
    ELSE LET near == Within(k - 1, through_unreadable)
         IN near \cup UNION {LinkedNotes(d, through_unreadable) : d \in near}

\* the length of the shortest reference path from the root to D
Dist(D, through_unreadable) ==
    CHOOSE k \in 0 .. max_depth :
        /\ D \in Within(k, through_unreadable)
        /\ \A j \in 0 .. (k - 1) : D \notin Within(j, through_unreadable)

---------------------------------------------------------------------------
(* C1 as stated: after the traversal has returned, every document within   *)
(* max_depth resolved-reference hops of the root is a key of               *)
(* collected_notes, recorded at the length of the shortest reference path  *)
(* from the root.  It fails when the only short path to a document runs    *)
(* through a document whose text cannot be read.                           *)
C1_AsStated ==
    TraversalDone =>
        \A D \in Within(max_depth, TRUE) :
            D \in Keys /\ collected_notes[D] = Dist(D, TRUE)

(* C1: after the traversal has returned, every document within max_depth   *)
(* hops of the root along references found in documents that can be read   *)
(* is a key of collected_notes, and its recorded depth is the length of    *)
(* the shortest such path.                                                 *)
C1_ShortestReadablePath ==
    TraversalDone =>
        \A D \in Within(max_depth, FALSE) :
            D \in Keys /\ collected_notes[D] = Dist(D, FALSE)

\* a run over a cyclic graph in which a note two references away from the
\* root along one path is one reference away along another
C1_Witness ==
    /\ pc = "done"
    /\ \E D, E \in Keys :
          /\ D # E /\ D # Root /\ E # Root
          /\ collected_notes[D] = 1 /\ collected_notes[E] = 1
          /\ D \in LinkedNotes(E, FALSE)
          /\ Root \in LinkedNotes(D, FALSE)
          /\ \E i \in 1 .. Len(collected_order) :
                collected_order[i] = E /\ \E j \in (i + 1) .. Len(collected_order) :
                                              collected_order[j] = D

---------------------------------------------------------------------------
(* C2, the revisit law: a call goes on to read a note (expands it) only    *)
(* when the note has no recorded depth or is reached at a strictly         *)
(* shallower depth than the recorded one, so the depths at which any one   *)
(* note is expanded are strictly decreasing.                               *)
C2_RevisitLaw ==
    \A i \in 1 .. Len(expansions) :
        /\ expansions[i].prev = -1 \/ expansions[i].depth < expansions[i].prev
        /\ \A j \in (i + 1) .. Len(expansions) :
              expansions[j].note = expansions[i].note
                  => expansions[j].depth < expansions[i].depth

\* a note expanded twice
C2_Witness ==
    \E i \in 1 .. Len(expansions) : \E j \in (i + 1) .. Len(expansions) :
        /\ expansions[j].note = expansions[i].note
        /\ expansions[j].depth < expansions[i].depth

---------------------------------------------------------------------------
(* C3: a call that reaches a note at depth >= max_depth returns at once:   *)
(* the note is recorded (at the call's depth, unless a depth at most that  *)
(* is already recorded, which stays), no other entry of collected_notes    *)
(* changes, no call is made for any of its references, and                 *)
(* collected_attachments and the output are unchanged.  With max_depth = 0 *)
(* the traversal returns with the root as the only key and no attachment.  *)
C3_DepthLimitFrame ==
    [][ /\ ( /\ pc = "collect" /\ stack # <<>>
             /\ Head(stack).at = "enter"
             /\ Head(stack).depth >= max_depth )
           => LET f == Head(stack)
              IN /\ stack' = Tail(stack)
                 /\ collected_attachments' = collected_attachments
                 /\ DOMAIN collected_notes' = Keys \cup {f.note}
                 /\ \A p \in Keys \ {f.note} : collected_notes'[p] = collected_notes[p]
                 /\ collected_notes'[f.note] =
                       IF f.note \in Keys /\ collected_notes[f.note] <= f.depth
                       THEN collected_notes[f.note] ELSE f.depth
                 /\ UNCHANGED <<outputs, expansions, pc>>
        /\ (max_depth = 0 /\ pc = "collect" /\ stack' = <<>>)
           => (DOMAIN collected_notes' = {Root} /\ collected_attachments' = {})
      ]_vars

\* the traversal has returned with max_depth = 0 from a root that links to
\* an existing note and embeds an existing attachment
C3_Witness ==
    /\ max_depth = 0 /\ pc = "collect" /\ stack = <<>>
    /\ Keys = {FileR} /\ collected_attachments = {}
    /\ FileA \in LinkedNotes(FileR, FALSE)
    /\ \E k \in 1 .. Len(content[FileR]) :
          content[FileR][k].target = TgtImg /\ ~content[FileR][k].comment

---------------------------------------------------------------------------
(* C4: when export returns, every attachment reference outside comment     *)
(* spans in a collected document that can be read, whose target names a    *)
(* file of the vault (directly, or by its file name), has that file in     *)
(* collected_attachments; every collected attachment is counted in         *)
(* attachments_collected and has had its copy attempted.  This holds for   *)
(* documents recorded at depth = max_depth too, whose attachments are      *)
(* found only while the document is rewritten.                             *)
CanBeRead(d) == d \in TextFiles /\ d \notin unreadable

NamesAFile(f) == Exists(f) \/ \E g \in VaultFiles : NameOf(g) = NameOf(f)

---------------------------------------------------------------------------
(* C5: a document that cannot be read never aborts the run.  In the        *)
(* traversal, the call that fails to read its note leaves the note         *)
(* recorded at the call's depth, makes no further call and returns to its  *)
(* caller, whose remaining references are still to be handled.  Once the   *)
(* root is resolved the run never ends in the error state.  When export    *)
(* returns, exactly the collected notes that could be read and written     *)
(* have an output file, every collected attachment has been handled, and   *)
(* notes_exported = (collected notes) - (notes whose export failed).       *)
ExportFailed(d) == ~CanBeRead(d) \/ d \in broken

C5_Final ==
    /\ \A d \in Keys :
          (\E n \in DOMAIN out_files : out_files[n].src = d) <=> ~ExportFailed(d)
    /\ copied = collected_attachments
    /\ stats.notes_collected = Cardinality(Keys)
    /\ stats.notes_exported =
          Cardinality(Keys) - Cardinality({d \in Keys : ExportFailed(d)})
    /\ stats.notes_exported = exported_notes

C5_UnreadableNeverAborts ==
    [][ /\ ( /\ pc = "collect" /\ stack # <<>>
             /\ Head(stack).at = "enter"
             /\ ~CanBeRead(Head(stack).note)
             /\ Head(stack).depth < max_depth
             /\ ~(Head(stack).note \in Keys
                    /\ collected_notes[Head(stack).note] <= Head(stack).depth) )
           => /\ DOMAIN collected_notes' = Keys \cup {Head(stack).note}
              /\ collected_notes'[Head(stack).note] = Head(stack).depth
              /\ \A p \in Keys \ {Head(stack).note} :
                    collected_notes'[p] = collected_notes[p]
              /\ stack' = Tail(stack)
              /\ collected_attachments' = collected_attachments
              /\ pc' = "collect"
        /\ pc' = "error" => pc \in {"init", "error"}
        /\ pc' = "done" => C5_Final'
      ]_vars

\* export has returned after a note could not be read, another could not
\* be written, and a third was exported
C5_Witness ==
    /\ pc = "done"
    /\ \E d \in Keys : d \in unreadable
    /\ \E d \in Keys : d \in broken /\ CanBeRead(d)
    /\ stats.notes_exported >= 1
    /\ stats.notes_exported < stats.notes_collected

---------------------------------------------------------------------------
(* C6: export raises the not-found error exactly when the selector         *)
(* resolves by none of: the vault-relative path (".md" added when it has   *)
(* no suffix) of its part before '#', the stem of that part among the      *)
(* *.md files of the vault, the raw vault-relative path.  The run then     *)
(* stops with nothing collected, no output directory created and no file   *)
(* written.                                                                *)
SelectorResolves(t) ==
    LET lt == StripFragment(t)
        direct == IF lt.ext = "" THEN PathOf(lt.dir, lt.stem, ".md") ELSE lt
    IN \/ /\ ~IsEmpty(lt)
          /\ \/ direct \in VaultFiles \cup VaultDirs
             \/ \E f \in VaultFiles : f.ext = ".md" /\ f.stem = lt.stem
       \/ ~t.frag /\ lt \in VaultFiles \cup VaultDirs

C6_RootNotFound ==
    [][ /\ pc = "init" => (pc' = "error" <=> ~SelectorResolves(moc_path))
        /\ pc # "init" => (pc' = "error" <=> pc = "error")
        /\ pc' = "error" =>
              /\ DOMAIN collected_notes' = {} /\ collected_attachments' = {}
              /\ stack' = <<>>
              /\ out_dir' = out_dir /\ out_files' = out_files /\ writes' = <<>>
              /\ exported_notes' = 0 /\ exported_attachments' = 0
        /\ pc = "error" => UNCHANGED vars
      ]_vars

\* the run has ended with the error, for a selector whose path exists only
\* without its '#' fragment
C6_Witness ==
    /\ pc = "error"
    /\ moc_path = Target("", <<"notes">>, "", TRUE)
    /\ ~out_dir /\ Keys = {}

---------------------------------------------------------------------------
(* C7: a reference whose target has an attachment extension and names no   *)
(* file of the vault is rewritten with the directory-stripped file name of *)
(* its target as destination; neither its path nor a file of its name is   *)
(* ever in collected_attachments, and no copy is attempted or written for  *)
(* it.                                                                     *)
UnresolvedAttachment(f) == is_attachment(f) /\ ~NamesAFile(f)

C7_UnresolvedAttachment ==
    /\ collected_attachments \subseteq VaultFiles
    /\ \A d \in TextFiles :
          LET u == SelectSeq(content[d], LAMBDA r : ~r.comment)
          IN \A k \in 1 .. Len(content[d]) :
                LET f == StripFragment(content[d][k].target)
                IN UnresolvedAttachment(f) =>
                      /\ \A a \in collected_attachments \cup copied :
                            a # f /\ NameOf(a) # NameOf(f)
                      /\ \A i \in 1 .. Len(writes) :
                            NameOf(writes[i].src) # NameOf(f)
                      /\ \A n \in DOMAIN out_files :
                            /\ n # NameOf(f)
                            /\ out_files[n].src = d =>
                                  /\ Len(out_files[n].text) = Len(u)
                                  /\ \A j \in 1 .. Len(u) :
                                        StripFragment(u[j].target) = f
                                            => out_files[n].text[j].dest = NameOf(f)

\* export has returned having expanded and rewritten A.md, which links to
\* deep/nope.png
C7_Witness ==
    /\ pc = "done"
    /\ \E i \in 1 .. Len(expansions) : expansions[i].note = FileA
    /\ \E k \in 1 .. Len(content[FileA]) : content[FileA][k].target = TgtNope
    /\ \E n \in DOMAIN out_files :
          /\ out_files[n].src = FileA
          /\ \E j \in 1 .. Len(out_files[n].text) :
                out_files[n].text[j].dest = [stem |-> <<"nope">>, ext |-> ".png"]

---------------------------------------------------------------------------
(* C8 as stated: of two files export writes from sources with the same     *)
(* file name, the later one is named with the suffix _1.  It fails when    *)
(* the output directory already holds a file of that name.                 *)
C8_AsStated ==
    \A i \in 1 .. Len(writes) : \A j \in (i + 1) .. Len(writes) :
        NameOf(writes[i].src) = NameOf(writes[j].src)
            => /\ writes[i].name # writes[j].name
               /\ writes[j].name = Suffixed(NameOf(writes[j].src), 1)

(* C8, the collision law: every file export writes goes to a name that did *)
(* not exist in the output directory when it was chosen: the source's file *)
(* name if that is free, otherwise the name with _k before the extension   *)
(* for the least k >= 1 that is free (so _1 unless that exists already).   *)
(* Two sources with the same file name end up in two distinct files, no    *)
(* file is overwritten, and the number of files written is                 *)
(* notes_exported + attachments_exported.                                  *)
C8_CollisionLaw ==
    /\ Len(writes) = exported_notes + exported_attachments
    /\ \A i \in 1 .. Len(writes) :
          LET w == writes[i]
              base == NameOf(w.src)
          IN /\ w.name \notin w.existed
             /\ base \notin w.existed => w.name = base
             /\ base \in w.existed =>
                   \E k \in 1 .. Cardinality(w.existed) :
                      /\ w.name = Suffixed(base, k)
                      /\ \A m \in 1 .. (k - 1) : Suffixed(base, m) \in w.existed
             /\ w.name \in DOMAIN out_files /\ out_files[w.name].src = w.src
             /\ \A n \in w.existed : n \in DOMAIN out_files
             /\ \A j \in (i + 1) .. Len(writes) :
                   w.name \in writes[j].existed /\ w.name # writes[j].name
    /\ Len(writes) > 0 => \A n \in writes[1].existed : out_files[n] = OldFile

\* export has returned having written both A.md and sub/A.md, the second
\* as A_1.md, and both img.png and sub/img.png
C8_Witness ==
    /\ pc = "done"
    /\ \E i \in 1 .. Len(writes) : \E j \in (i + 1) .. Len(writes) :
          /\ writes[i].src = FileA /\ writes[j].src = FileS
          /\ writes[i].name = NameOf(FileA)
          /\ writes[j].name = Suffixed(NameOf(FileS), 1)
    /\ \E i \in 1 .. Len(writes) : \E j \in (i + 1) .. Len(writes) :
          /\ NameOf(writes[i].src) = NameOf(writes[j].src)
          /\ writes[i].src # writes[j].src
          /\ writes[i].src \in {FileI1, FileI2}

---------------------------------------------------------------------------
(* convert_to_standard_markdown on texts of characters.  A string is the   *)
(* sequence of its characters; the three patterns are matched as re        *)
(* matches them, leftmost first, without overlap.                          *)

\* the number of pieces an input text is made of is at most MaxPieces
MaxPieces == 4
\* convert is run MaxRuns times on its own output
MaxRuns == 2

IMAGE_SUFFIXES ==
    {<<".", "p", "n", "g">>, <<".", "j", "p", "g">>,
     <<".", "j", "p", "e", "g">>, <<".", "g", "i", "f">>,
     <<".", "s", "v", "g">>, <<".", "w", "e", "b", "p">>,
     <<".", "b", "m", "p">>}
DOCUMENT_SUFFIXES ==
    {<<".", "p", "d", "f">>, <<".", "d", "o", "c">>,
     <<".", "d", "o", "c", "x">>, <<".", "x", "l", "s">>,
     <<".", "x", "l", "s", "x">>, <<".", "p", "p", "t">>,
     <<".", "p", "p", "t", "x">>}
MEDIA_SUFFIXES ==
    {<<".", "m", "p", "3">>, <<".", "w", "a", "v">>, <<".", "m", "p", "4">>,
     <<".", "w", "e", "b", "m">>, <<".", "o", "g", "g">>}
ATTACHMENT_SUFFIXES == IMAGE_SUFFIXES \cup DOCUMENT_SUFFIXES \cup MEDIA_SUFFIXES

\* t[i ..] starts with pat
StartsWithAt(t, i, pat) ==
    /\ i >= 1
    /\ i + Len(pat) - 1 <= Len(t)
    /\ SubSeq(t, i, i + Len(pat) - 1) = pat

\* the least j >= i where pat starts in t, or 0
IndexFrom(t, pat, i) ==
    LET at == {j \in i .. Len(t) : StartsWithAt(t, j, pat)}
    IN IF at = {} THEN 0 ELSE CHOOSE j \in at : \A k \in at : j <= k

\* the greatest j where pat starts in t, or 0
LastIndex(t, pat) ==
    LET at == {j \in 1 .. Len(t) : StartsWithAt(t, j, pat)}
    IN IF at = {} THEN 0 ELSE CHOOSE j \in at : \A k \in at : j >= k

\* the end of the longest run of characters outside stop that starts at
\* i: the index of the first character after it
RunEnd(t, i, stop) ==
    LET at == {j \in i .. Len(t) : t[j] \in stop}
    IN IF at = {} THEN Len(t) + 1 ELSE CHOOSE j \in at : \A k \in at : j <= k

\* str.lower
LowerChar(c) ==
    CASE c = "P" -> "p" [] c = "N" -> "n" [] c = "G" -> "g" [] OTHER -> c

Lower(t) == [k \in 1 .. Len(t) |-> LowerChar(t[k])]

\* str.split('#')[0]
BeforeHash(t) ==
    LET j == IndexFrom(t, <<"#">>, 1)
    IN IF j = 0 THEN t ELSE SubSeq(t, 1, j - 1)

\* the components of a path string: split at '/', '' and '.' dropped
RECURSIVE Components(_)
Components(t) ==
    IF t = <<>> THEN <<>>
    ELSE LET j == IndexFrom(t, <<"/">>, 1)
             first == IF j = 0 THEN t ELSE SubSeq(t, 1, j - 1)
             rest == IF j = 0 THEN <<>> ELSE Components(SubSeq(t, j + 1, Len(t)))
         IN IF first = <<>> \/ first = <<".">> THEN rest ELSE <<first>> \o rest

\* Path(t).name
PathName(t) ==
    LET c == Components(t) IN IF c = <<>> THEN <<>> ELSE c[Len(c)]

\* Path(t).suffix: from the last '.' of the name, unless that is its first
\* or its last character
PathSuffix(t) ==
    LET name == PathName(t)
        i == LastIndex(name, <<".">>)
    IN IF 1 < i /\ i < Len(name) THEN SubSeq(name, i, Len(name)) ELSE <<>>

\* Path(t).stem
PathStem(t) ==
    LET name == PathName(t)
        i == LastIndex(name, <<".">>)
    IN IF 1 < i /\ i < Len(name) THEN SubSeq(name, 1, i - 1) ELSE name

IsAttachmentName(filename) == Lower(PathSuffix(filename)) \in ATTACHMENT_SUFFIXES

IsImageName(filename) == Lower(PathSuffix(filename)) \in IMAGE_SUFFIXES

\* a file of the vault: its directory below the vault ('' for the vault
\* itself) and its name
VaultFile(dir, name) == [dir |-> dir, name |-> name]

NoFile == VaultFile(<<"?">>, <<>>)

SearchDirNames ==
    <<<<"a", "t", "t", "a", "c", "h", "m", "e", "n", "t", "s">>,
      <<"a", "s", "s", "e", "t", "s">>, <<"i", "m", "a", "g", "e", "s">>,
      <<"f", "i", "l", "e", "s">>, <<>>>>

RECURSIVE SearchByName(_, _, _)
SearchByName(dirs, name, vault) ==
    IF dirs = <<>> THEN NoFile
    ELSE LET hits == {v \in vault : (Head(dirs) = <<>> \/ v.dir = Head(dirs))
                                     /\ v.name = name}
         IN IF hits # {} THEN CHOOSE v \in hits : TRUE
            ELSE SearchByName(Tail(dirs), name, vault)

\* find_attachment_file on a target string (of a vault that holds at most
\* one file of any name)
FindAttachment(filename, vault) ==
    LET parts == Components(filename)
        direct == {v \in vault :
                     /\ filename # <<>> /\ filename[1] # "/"
                     /\ parts = (IF v.dir = <<>> THEN <<v.name>> ELSE <<v.dir, v.name>>)}
    IN IF direct # {} THEN CHOOSE v \in direct : TRUE
       ELSE SearchByName(SearchDirNames, PathName(filename), vault)

---------------------------------------------------------------------------
(* The three patterns.                                                     *)

PERCENTS == <<"%", "%">>
OPEN == <<"[", "[">>
BANG_OPEN == <<"!", "[", "[">>
CLOSE == <<"]", "]">>

\* COMMENT_PATTERN.sub with count=1 (a faulty variant: only the first
\* comment is removed)
RemoveFirstComment(t) ==
    LET i == IndexFrom(t, PERCENTS, 1)
        j == IF i = 0 THEN 0 ELSE IndexFrom(t, PERCENTS, i + 2)
    IN IF j = 0 THEN t ELSE SubSeq(t, 1, i - 1) \o SubSeq(t, j + 2, Len(t))

\* COMMENT_PATTERN = %%.*?%% (DOTALL): where a comment that starts at i ends
\* (the index after it), or 0
CommentEnd(t, i) ==
    IF StartsWithAt(t, i, PERCENTS) /\ IndexFrom(t, PERCENTS, i + 2) # 0
    THEN IndexFrom(t, PERCENTS, i + 2) + 2
    ELSE 0

\* the least j >= i where a comment starts, or 0
NextComment(t, i) ==
    LET at == {j \in i .. Len(t) : CommentEnd(t, j) # 0}
    IN IF at = {} THEN 0 ELSE CHOOSE j \in at : \A k \in at : j <= k

RECURSIVE RemoveCommentsFrom(_, _)
RemoveCommentsFrom(t, i) ==
    LET j == NextComment(t, i)
    IN IF j = 0 THEN SubSeq(t, i, Len(t))
       ELSE SubSeq(t, i, j - 1) \o RemoveCommentsFrom(t, CommentEnd(t, j))

\* COMMENT_PATTERN.sub('', content)
RemoveComments(t) == RemoveCommentsFrom(t, 1)

NoMatch == [ok |-> FALSE, target |-> <<>>, alias |-> <<>>, end |-> 0]

\* open ([^\]|]+) (?: \| ([^\]]+) )? \]\]  matched at i.  Both groups are
\* longest runs: a shorter one would have to be followed by a character of
\* the run itself.  alias is <<>> when group 2 did not take part.
MatchAt(t, i, open) ==
    IF ~StartsWithAt(t, i, open) THEN NoMatch
    ELSE LET s == i + Len(open)
             e1 == RunEnd(t, s, {"]", "|"})
             a == e1 + 1
             e2 == RunEnd(t, a, {"]"})
         IN IF e1 = s THEN NoMatch
            ELSE IF StartsWithAt(t, e1, CLOSE)
            THEN [ok |-> TRUE, target |-> SubSeq(t, s, e1 - 1), alias |-> <<>>,
                  end |-> e1 + 2]
            ELSE IF e1 <= Len(t) /\ t[e1] = "|" /\ e2 > a /\ StartsWithAt(t, e2, CLOSE)
            THEN [ok |-> TRUE, target |-> SubSeq(t, s, e1 - 1),
                  alias |-> SubSeq(t, a, e2 - 1), end |-> e2 + 2]
            ELSE NoMatch

\* the pattern has a match somewhere in t
HasMatch(t, open) == \E i \in 1 .. Len(t) : MatchAt(t, i, open).ok

HasComment(t) == \E i \in 1 .. Len(t) : CommentEnd(t, i) # 0

Bracketed(text, dest) == <<"[">> \o text \o <<"]", "(">> \o dest \o <<")">>

DotMd == <<".", "m", "d">>

\* replace_embed, lines 170-198: the replacement string
EmbedReplacement(m) ==
    LET filename == BeforeHash(m.target)
    IN IF IsAttachmentName(filename)
       THEN IF IsImageName(filename)
            THEN <<"!">> \o Bracketed(IF m.alias # <<>> THEN m.alias ELSE PathStem(filename),
                                      PathName(filename))
            ELSE Bracketed(IF m.alias # <<>> THEN m.alias ELSE PathName(filename),
                           PathName(filename))
       ELSE Bracketed(IF m.alias # <<>> THEN m.alias ELSE m.target,
                      PathStem(filename) \o DotMd)

\* replace_wikilink, lines 203-221: the replacement string
WikilinkReplacement(m) ==
    LET filename == BeforeHash(m.target)
        link_text == IF m.alias # <<>> THEN m.alias ELSE m.target
    IN IF IsAttachmentName(filename)
       THEN Bracketed(link_text, PathName(filename))
       ELSE Bracketed(link_text,
                      IF filename # <<>> THEN PathStem(filename) \o DotMd ELSE m.target)

\* the attachment a replacement records, if any (lines 177-181, 211-215)
Recorded(m, vault) ==
    LET filename == BeforeHash(m.target)
    IN IF IsAttachmentName(filename) /\ FindAttachment(filename, vault) # NoFile
       THEN {FindAttachment(filename, vault)}
       ELSE {}

Result(text, atts) == [text |-> text, atts |-> atts]

\* the least j >= i where the pattern matches, or 0
NextMatch(t, i, open) ==
    LET at == {j \in i .. Len(t) : MatchAt(t, j, open).ok}
    IN IF at = {} THEN 0 ELSE CHOOSE j \in at : \A k \in at : j <= k

\* EMBED_PATTERN.sub(replace_embed, content), from position i on
RECURSIVE SubEmbedsFrom(_, _, _)
SubEmbedsFrom(t, i, vault) ==
    LET j == NextMatch(t, i, BANG_OPEN)
    IN IF j = 0 THEN Result(SubSeq(t, i, Len(t)), {})
       ELSE LET m == MatchAt(t, j, BANG_OPEN)
                rest == SubEmbedsFrom(t, m.end, vault)
            IN Result(SubSeq(t, i, j - 1) \o EmbedReplacement(m) \o rest.text,
                      Recorded(m, vault) \cup rest.atts)

\* WIKILINK_PATTERN.sub(replace_wikilink, content), from position i on
RECURSIVE SubWikilinksFrom(_, _, _)
SubWikilinksFrom(t, i, vault) ==
    LET j == NextMatch(t, i, OPEN)
    IN IF j = 0 THEN Result(SubSeq(t, i, Len(t)), {})
       ELSE LET m == MatchAt(t, j, OPEN)
                rest == SubWikilinksFrom(t, m.end, vault)
            IN Result(SubSeq(t, i, j - 1) \o WikilinkReplacement(m) \o rest.text,
                      Recorded(m, vault) \cup rest.atts)

\* the wikilink pass on the result of the embed pass (line 223)
LinksAfter(embeds, vault) ==
    Result(SubWikilinksFrom(embeds.text, 1, vault).text,
           embeds.atts \cup SubWikilinksFrom(embeds.text, 1, vault).atts)

\* convert_to_standard_markdown: the converted text and the attachments
\* added to collected_attachments
convert_to_standard_markdown(t, vault) ==
    LinksAfter(SubEmbedsFrom(RemoveComments(t), 1, vault), vault)

---------------------------------------------------------------------------
(* SpecConvert: convert run on a text, then on its own output.             *)

RECURSIVE Flatten(_)
Flatten(pieces) ==
    IF pieces = <<>> THEN <<>> ELSE Head(pieces) \o Flatten(Tail(pieces))

ImagePng == <<"i", "m", "a", "g", "e", ".", "p", "n", "g">>
DirSlash == <<"d", "i", "r", "/">>
Description == <<"|", "d", "e", "s", "c", "r", "i", "p", "t", "i", "o", "n">>
Width == <<"|", "3", "0", "0">>
WidthHeight == <<"|", "3", "0", "0", "x", "2", "0", "0">>

\* image.png + .PNG, doc.pdf, Note, Note#Heading
EmbedTargets ==
    {ImagePng, DirSlash \o ImagePng,
     <<"i", "m", "a", "g", "e", ".", "P", "N", "G">>,
     <<"d", "o", "c", ".", "p", "d", "f">>,
     <<"N", "o", "t", "e">>,
     <<"N", "o", "t", "e", "#", "H">>}

Segments == {Description, Width, WidthHeight}

\* the pieces free texts are made of
FreePieces ==
    {OPEN, BANG_OPEN, CLOSE, PERCENTS, <<"%">>, <<"|">>, <<"[">>, <<"]">>,
     <<"#">>, <<"a">>, <<"/">>, <<".", "p", "n", "g">>}

ConvVaults ==
    {{}, {VaultFile(<<>>, ImagePng)},
     {VaultFile(<<"a", "t", "t", "a", "c", "h", "m", "e", "n", "t", "s">>, ImagePng)},
     {VaultFile(<<"d", "i", "r">>, ImagePng)}}

\* what comes before the reference: nothing, a letter, a comment
Leads == {<<>>, <<<<"a">>>>, <<PERCENTS, <<"a">>, PERCENTS>>}

\* a reference to one of the targets with up to two pipe-separated segments
InitReference ==
    /\ \E open \in {OPEN, BANG_OPEN}, target \in EmbedTargets,
          segs \in SeqsUpTo(Segments, 2), lead \in Leads :
          conv_pieces = lead \o <<open, target>> \o segs \o <<CLOSE>>
    /\ conv_vault \in ConvVaults

\* any text of at most MaxPieces pieces, in a vault that holds a.png
InitFree ==
    /\ conv_pieces \in SeqsUpTo(FreePieces, MaxPieces)
    /\ conv_vault = {VaultFile(<<>>, <<"a", ".", "p", "n", "g">>)}

\* the variables of Spec take no part in SpecConvert
InitNoRun ==
    /\ max_depth = 0
    /\ moc_path = TgtVault
    /\ content = TextOf(<<>>, <<>>, <<>>, <<>>)
    /\ unreadable = {}
    /\ broken = {}
    /\ scan = ScanTopFirst
    /\ out_dir = FALSE
    /\ out_files = NoFiles

InitConvert ==
    /\ InitObject
    /\ InitNoRun
    /\ InitReference \/ InitFree
    /\ conv_hist = <<Result(Flatten(conv_pieces), {})>>

\* a run's result, with the attachments collected so far
After(last, r) == Result(r.text, last.atts \cup r.atts)

\* one run of convert on the text the last run produced
Convert ==
    /\ Len(conv_hist) <= MaxRuns
    /\ conv_hist' = Append(conv_hist,
                           After(conv_hist[Len(conv_hist)],
                                 convert_to_standard_markdown(conv_hist[Len(conv_hist)].text,
                                                              conv_vault)))
    /\ UNCHANGED <<max_depth, moc_path, content, unreadable, broken, scan,
                   conv_pieces, conv_vault, note_cache, collected_notes,
                   collected_order, collected_attachments, pc, stack, counters,
                   outputs, expansions>>

NextConvert == Convert

SpecConvert == InitConvert /\ [][NextConvert]_vars

---------------------------------------------------------------------------
(* Image embeds with size modifiers.                                       *)

\* a pipe-separated segment that is a bare integer or a WxH string
IsSizeModifier(seg) == seg \in {Width, WidthHeight}

\* the text under conversion is [a] ![[target|seg|..]] with an image target
\* at piece k + 1 and at least one segment
ImageEmbedAt(k) ==
    /\ Len(conv_pieces) >= k + 3
    /\ k = 2 => conv_pieces[1] = <<"a">>
    /\ conv_pieces[k] = BANG_OPEN
    /\ conv_pieces[k + 1] \in EmbedTargets
    /\ IsImageName(conv_pieces[k + 1])
    /\ conv_pieces[Len(conv_pieces)] = CLOSE
    /\ \A j \in k + 2 .. Len(conv_pieces) - 1 : conv_pieces[j] \in Segments

SegmentsAt(k) == SubSeq(conv_pieces, k + 2, Len(conv_pieces) - 1)

NonSize(segs) == {j \in 1 .. Len(segs) : ~IsSizeModifier(segs[j])}

\* the alt text the size-modifier rule asks for: the segment that is not a
\* size modifier, the stem of the file when there is none
AltWithoutSize(k) ==
    LET segs == SegmentsAt(k)
    IN IF NonSize(segs) = {} THEN PathStem(conv_pieces[k + 1])
       ELSE Tail(segs[CHOOSE j \in NonSize(segs) : TRUE])

\* C9: for an image embed with pipe-separated segments, of which at most
\* one is not a size modifier, convert emits ![A](file): A is the segment
\* that is not a size modifier (before or after the size) or the stem of
\* the file when every segment is a size modifier; file is the bare name.
\* A size modifier is never the alt text.
C9_SizeNeverAltText ==
    \A k \in {1, 2} :
        (/\ ImageEmbedAt(k)
         /\ Cardinality(NonSize(SegmentsAt(k))) <= 1
         /\ Len(conv_hist) >= 2)
        => conv_hist[2].text =
               Flatten(SubSeq(conv_pieces, 1, k - 1)) \o <<"!">>
               \o Bracketed(AltWithoutSize(k), PathName(conv_pieces[k + 1]))

---------------------------------------------------------------------------
(* Idempotence of convert.                                                 *)

\* the targets (group 1) of the occurrences a sub of the pattern rewrites
RECURSIVE TargetsFrom(_, _, _)
TargetsFrom(t, i, open) ==
    IF NextMatch(t, i, open) = 0 THEN {}
    ELSE {MatchAt(t, NextMatch(t, i, open), open).target}
         \cup TargetsFrom(t, MatchAt(t, NextMatch(t, i, open), open).end, open)

\* the targets of the embeds and links one run of convert rewrites in t
RewrittenTargets(t) ==
    TargetsFrom(RemoveComments(t), 1, BANG_OPEN)
    \cup TargetsFrom(SubEmbedsFrom(RemoveComments(t), 1, {}).text, 1, OPEN)

\* no rewritten target holds a comment marker or an opening bracket pair
PlainTargets(t) ==
    \A target \in RewrittenTargets(t) :
        /\ IndexFrom(target, PERCENTS, 1) = 0
        /\ IndexFrom(target, OPEN, 1) = 0

\* nothing is left in t for a run of convert to match
NothingToMatch(t) ==
    /\ ~HasComment(t)
    /\ ~HasMatch(t, BANG_OPEN)
    /\ ~HasMatch(t, OPEN)

\* C10 as stated: for every input text the second run of convert changes
\* neither the text nor the collected attachments, and the output of the
\* first run holds no comment, embed or link for a second run to match.
C10_AsStated ==
    Len(conv_hist) >= 3 =>
        /\ conv_hist[3] = conv_hist[2]
        /\ NothingToMatch(conv_hist[2].text)

\* C10: for every input text in which no target of a rewritten embed or
\* link holds a comment marker %% or an opening bracket pair [[, the second
\* run of convert changes neither the text nor the collected attachments,
\* and the output of the first run holds no comment, embed or link to match.
C10_IdempotentOnPlainTargets ==
    (Len(conv_hist) >= 3 /\ PlainTargets(conv_hist[1].text)) =>
        /\ conv_hist[3] = conv_hist[2]
        /\ NothingToMatch(conv_hist[2].text)

\* two runs on a text with plain targets; the first removed a comment,
\* rewrote a reference and recorded an attachment
C10_Witness ==
    /\ Len(conv_hist) = 3
    /\ PlainTargets(conv_hist[1].text)
    /\ RewrittenTargets(conv_hist[1].text) # {}
    /\ HasComment(conv_hist[1].text)
    /\ conv_hist[2].atts # {}
    /\ conv_hist[3] = conv_hist[2]

---------------------------------------------------------------------------
(* Termination of the traversal.                                           *)

\* the program is sequential: while a step is left to take, it is taken
FairSpec == Spec /\ WF_vars(Next)

\* collect_notes_recursive(root, 0) has returned, or was never called
\* because the MOC file was not found
TraversalEnded == TraversalDone \/ pc = "error"

\* every call of collect_notes_recursive on the call stack has a depth of
\* at most max_depth
CallsWithinDepth ==
    \A k \in 1 .. Len(stack) : stack[k].depth \in 0 .. max_depth

\* how many times the note has been expanded so far
TimesExpanded(note) ==
    Cardinality({i \in 1 .. Len(expansions) : expansions[i].note = note})

\* C11: for every max_depth >= 0 and every vault, cycles and
\* self-references included, the traversal terminates; no call of
\* collect_notes_recursive is made with a depth greater than max_depth, and
\* no document is expanded more than max_depth + 1 times in one traversal.
C11_TraversalTerminates ==
    /\ [](CallsWithinDepth
          /\ \A note \in VaultFiles : TimesExpanded(note) <= max_depth + 1)
    /\ <>TraversalEnded

\* the traversal has returned on a vault with a reference cycle through
\* the root, after expanding some note twice
C11_Witness ==
    /\ TraversalDone
    /\ \E D \in Keys \ {Root} : Root \in LinkedNotes(D, FALSE)
    /\ \E note \in VaultFiles : TimesExpanded(note) >= 2

---------------------------------------------------------------------------
(* The recorded depths.                                                    *)

\* the documents at the end of a path of exactly k resolved references
\* from the root, each read from a document that can be read
RECURSIVE EndsOfPaths(_)
EndsOfPaths(k) ==
    IF k = 0 THEN {Root}
    ELSE UNION {LinkedNotes(d, FALSE) : d \in EndsOfPaths(k - 1)}

\* every key has a depth within 0 .. max_depth and a path of that length
DepthsArePathLengths ==
    \A p \in Keys :
        /\ collected_notes[p] \in 0 .. max_depth
        /\ p \in EndsOfPaths(collected_notes[p])

\* a step removes no key and raises no recorded depth
DepthsOnlyDecrease ==
    /\ Keys \subseteq DOMAIN collected_notes'
    /\ \A p \in Keys : collected_notes'[p] <= collected_notes[p]

\* the traversal has returned: what follows is the export pass
ExportPass == pc \in {"notes", "attachments", "done"} \/ (pc = "collect" /\ stack = <<>>)

\* C12: in every state of a run every key of collected_notes has a recorded
\* depth d in 0 .. max_depth and is the end of a path of d resolved
\* references from the root; no step removes a key or raises a recorded
\* depth; the export pass changes neither the keys nor the depths.
C12_RecordedDepths ==
    /\ []DepthsArePathLengths
    /\ [][ /\ DepthsOnlyDecrease
           /\ ExportPass => collected_notes' = collected_notes ]_vars

\* export has returned; a recorded depth was lowered by a shallower visit,
\* and a deeper visit of the root, from a note that links back to it, left
\* depth 0 in place
C12_Witness ==
    /\ pc = "done"
    /\ collected_notes[Root] = 0
    /\ \E i \in 1 .. Len(expansions) :
          expansions[i].prev # -1 /\ expansions[i].depth < expansions[i].prev
    /\ \E i \in 1 .. Len(expansions) :
          /\ expansions[i].note # Root
          /\ Readable(expansions[i].note)
          /\ Root \in LinkedNotes(expansions[i].note, FALSE)

=============================================================================
